---- MODULE Spec2Model ----
(***************************************************************************)
(* Model of src/main.py: the fetch -> flatten -> aggregate -> upsert       *)
(* pipeline of the boligsiden scraper.                                     *)
(*                                                                         *)
(* Strings that the code inspects character by character (municipality     *)
(* names: sorted() and str.replace) are sequences of one-character         *)
(* strings; Str joins them into the text used as a dict key.               *)
(* Numbers are exact: a Python float is the rational n/d, and round(1)     *)
(* turns it into tenths (d = 10) by round-half-to-even.                    *)
(*                                                                         *)
(* A blocking network call is two steps, the call and its return.  The     *)
(* remote table is a sequence of rows; upsert(on_conflict="Dato") writes   *)
(* the columns of the payload over the row of the same Dato, or inserts.   *)
(*                                                                         *)
(* Spec        one run of main(), step by step                             *)
(* SpecFlatten flatten_entry on each listing of Entries                    *)
(* SpecStats   calculate_daily_stats and _row_to_payload on each dataset   *)
(* SpecStore   runs one after another against the same table               *)
(***************************************************************************)
EXTENDS Integers, Sequences, FiniteSets, TLC

VARIABLES
    pc,             \* position of the process
    env,            \* os.environ: SUPABASE_URL, SUPABASE_SERVICE_ROLE_KEY
    mi,             \* index into municipalities of the fetch loop
    props,          \* what the last fetch_properties_from_municipality returned
    all_properties, \* the list built by scrape_sydjylland_boliger
    df,             \* the DataFrame of flat rows
    stats_df,       \* the one-row stats frame (an ordered dict)
    payload,        \* the dict handed to upsert
    err,            \* the exception that ended the run, "none" if none
    log,            \* the steps of the run so far, in order
    res,            \* what the upsert call answered: the error of its result
    table,          \* the remote table daily_stats
    today,          \* date.today(), as a day number
    ran,            \* per date: the payloads of the successful runs, in order
    runs,           \* number of runs started
    flat_data       \* the list of flatten_entry's results

vars == <<pc, env, mi, props, all_properties, df, stats_df, payload, err, log,
          res, table, today, ran, runs, flat_data>>

----------------------------------------------------------------------------
(* Bounds of the model *)

\* rows of a dataset handed to calculate_daily_stats
MaxLen == 3
\* listings returned over one run of the fetch loop
MaxProps == 2
\* calendar dates
MaxDate == 2
\* process runs against the same table
MaxRuns == 3

----------------------------------------------------------------------------
(* Python values *)

None == [k |-> "none", n |-> 0, d |-> 1]
NaN == [k |-> "nan", n |-> 0, d |-> 1]
PyInt(n) == [k |-> "int", n |-> n, d |-> 1]
PyFloat(n, d) == [k |-> "float", n |-> n, d |-> d]
\* str(date): ISO text, one text per day
PyDate(day) == [k |-> "str", n |-> day, d |-> 1]

\* a JSON value as far as the code looks at it: its type, a number (the value of
\* a number, the length of a list) and a text (the characters of a string).
\* "absent" is a key that is not in its mapping.
Absent == [t |-> "absent", n |-> 0, s |-> <<>>]
Null == [t |-> "null", n |-> 0, s |-> <<>>]
JStr(s) == [t |-> "str", n |-> 0, s |-> s]
JNum(n) == [t |-> "num", n |-> n, s |-> <<>>]
JList(n) == [t |-> "list", n |-> n, s |-> <<>>]
JMap == [t |-> "map", n |-> 1, s |-> <<>>]
JDate(day) == [t |-> "date", n |-> day, s |-> <<>>]

\* bool(v) of Python
Truthy(v) ==
    CASE v.t \in {"absent", "null"} -> FALSE
      [] v.t = "str" -> v.s # <<>>
      [] v.t \in {"num", "list", "map"} -> v.n # 0
      [] OTHER -> TRUE

\* a cell of a numeric column
NumCell(n) == [k |-> "num", n |-> n]
NanCell == [k |-> "nan", n |-> 0]

\* Unicode code points of the characters the model uses
CodePoint == [c \in {" ", "1", "2", "A", "B", "C", "_"} |->
                CASE c = " " -> 32
                  [] c = "1" -> 49
                  [] c = "2" -> 50
                  [] c = "A" -> 65
                  [] c = "B" -> 66
                  [] c = "C" -> 67
                  [] c = "_" -> 95]

RECURSIVE Str(_)
Str(s) == IF s = <<>> THEN "" ELSE Head(s) \o Str(Tail(s))

\* Python's < on str: lexicographic by code point
RECURSIVE StrLess(_, _)
StrLess(a, b) ==
    IF b = <<>> THEN FALSE
    ELSE IF a = <<>> THEN TRUE
    ELSE IF Head(a) # Head(b) THEN CodePoint[Head(a)] < CodePoint[Head(b)]
    ELSE StrLess(Tail(a), Tail(b))

\* sorted(kommuner): ascending
RECURSIVE Sorted(_)
Sorted(S) ==
    IF S = {} THEN <<>>
    ELSE LET m == CHOOSE x \in S : \A y \in S \ {x} : StrLess(x, y)
         IN <<m>> \o Sorted(S \ {m})

\* str.replace(" ", "_")
Replace(s) == [i \in 1..Len(s) |-> IF s[i] = " " THEN "_" ELSE s[i]]

\* prefix = str(kommune).replace(" ", "_")
Prefix(kommune) == Str(Replace(kommune))

\* d[k] = v on a dict that keeps insertion order
DictSet(dict, k, v) ==
    IF \E i \in DOMAIN dict : dict[i].key = k
    THEN [i \in DOMAIN dict |->
            IF dict[i].key = k THEN [key |-> k, val |-> v] ELSE dict[i]]
    ELSE Append(dict, [key |-> k, val |-> v])

HasKey(dict, k) == \E i \in DOMAIN dict : dict[i].key = k
DictGet(dict, k) == dict[CHOOSE i \in DOMAIN dict : dict[i].key = k].val

----------------------------------------------------------------------------
(* pandas *)

FlatColumns == {"kommune", "salgspris_kr", "pris_per_m2_kr", "dage_paa_marked_nu",
                "boligareal_m2", "opdateringsdato", "adresse", "husnummer",
                "postnummer", "by"}

\* df.columns: pd.DataFrame([]) has no columns, else the keys of the flat rows
Columns(frame) == IF frame = <<>> THEN {} ELSE FlatColumns

\* the non-null values of a numeric column (pandas skips NaN)
Values(frame, col) ==
    LET present == SelectSeq(frame, LAMBDA r : r[col].k = "num")
    IN [i \in DOMAIN present |-> present[i][col].n]

RECURSIVE SumSeq(_)
SumSeq(s) == IF s = <<>> THEN 0 ELSE Head(s) + SumSeq(Tail(s))

\* s without its i-th element
Without(s, i) == [j \in 1..(Len(s) - 1) |-> IF j < i THEN s[j] ELSE s[j + 1]]

\* the values in ascending order
RECURSIVE Ranked(_)
Ranked(s) ==
    IF s = <<>> THEN <<>>
    ELSE LET i == CHOOSE i \in DOMAIN s : \A j \in DOMAIN s : s[i] <= s[j]
         IN <<s[i]>> \o Ranked(Without(s, i))

\* a mean that counts the null cells as well
MeanOverAllRows(frame, col) ==
    LET v == Values(frame, col)
    IN IF v = <<>> THEN NaN ELSE PyFloat(SumSeq(v), Len(frame))

\* float(Series.mean()): NaN when there is no value
Mean(frame, col) ==
    LET v == Values(frame, col)
    IN IF v = <<>> THEN NaN ELSE PyFloat(SumSeq(v), Len(v))

\* float(Series.median()): NaN when there is no value
Median(frame, col) ==
    LET v == Values(frame, col)
        t == Ranked(v)
        h == Len(v) \div 2
    IN IF v = <<>> THEN NaN
       ELSE IF Len(v) % 2 = 1 THEN PyFloat(t[h + 1], 1)
       ELSE PyFloat(t[h] + t[h + 1], 2)

Billion == 1000000000

\* float(Series.sum() / 1_000_000_000): the sum of no values is 0
SumInBillions(frame, col) == PyFloat(SumSeq(Values(frame, col)), Billion)

\* round half to even of n/d, n >= 0
RoundHalfEven(n, d) ==
    LET q == n \div d
        r == n % d
    IN IF 2 * r < d THEN q
       ELSE IF 2 * r > d THEN q + 1
       ELSE IF q % 2 = 0 THEN q ELSE q + 1

\* DataFrame.round(1) on one cell of a float64 or int64 column
Round1(v) ==
    IF v.k = "float"
    THEN PyFloat(10 * (v.n \div v.d) + RoundHalfEven((v.n % v.d) * 10, v.d), 10)
    ELSE v

----------------------------------------------------------------------------
(* calculate_daily_stats *)

\* the global part of stats
GlobalStats(frame, day) ==
    LET has(col) == col \in Columns(frame)
    IN << [key |-> "Dato", val |-> PyDate(day)],
          [key |-> "Total_Antal_Boliger", val |-> PyInt(Len(frame))],
          [key |-> "Total_Gns_Pris_kr",
           val |-> IF has("salgspris_kr") THEN Mean(frame, "salgspris_kr") ELSE None],
          [key |-> "Total_Median_Pris_kr",
           val |-> IF has("salgspris_kr") THEN Median(frame, "salgspris_kr") ELSE None],
          [key |-> "Total_Gns_M2_Pris_kr",
           val |-> IF has("pris_per_m2_kr") THEN Mean(frame, "pris_per_m2_kr") ELSE None],
          [key |-> "Total_Gns_Liggetid_dage",
           val |-> IF has("dage_paa_marked_nu")
                   THEN Mean(frame, "dage_paa_marked_nu") ELSE None],
          [key |-> "Total_Samlet_Udbud_mia_kr",
           val |-> IF has("salgspris_kr")
                   THEN SumInBillions(frame, "salgspris_kr") ELSE None] >>

\* df["kommune"].dropna().unique()
Kommuner(frame) ==
    {frame[i].kommune.s : i \in {j \in DOMAIN frame : frame[j].kommune.t = "str"}}

\* df[df["kommune"] == kommune]
RowsOf(frame, kommune) ==
    SelectSeq(frame, LAMBDA r : r.kommune.t = "str" /\ r.kommune.s = kommune)

\* one pass of the loop body: the four fields of one municipality
KommuneStats(stats, frame, kommune) ==
    LET k_df == RowsOf(frame, kommune)
        prefix == Prefix(kommune)
        s1 == DictSet(stats, prefix \o "_Antal", PyInt(Len(k_df)))
        s2 == DictSet(s1, prefix \o "_Gns_Pris", Mean(k_df, "salgspris_kr"))
        s3 == DictSet(s2, prefix \o "_Gns_M2_Pris", Mean(k_df, "pris_per_m2_kr"))
    IN DictSet(s3, prefix \o "_Gns_Liggetid", Mean(k_df, "dage_paa_marked_nu"))

\* for kommune in sorted(kommuner): ...
RECURSIVE KommuneLoop(_, _, _)
KommuneLoop(stats, frame, order) ==
    IF order = <<>> THEN stats
    ELSE KommuneLoop(KommuneStats(stats, frame, Head(order)), frame, Tail(order))

\* the stats dict before rounding
StatsDict(frame, day) ==
    IF "kommune" \in Columns(frame)
    THEN KommuneLoop(GlobalStats(frame, day), frame, Sorted(Kommuner(frame)))
    ELSE GlobalStats(frame, day)

\* stats_df[num_cols] = stats_df[num_cols].round(1)
RoundRow(row) == [i \in DOMAIN row |-> [key |-> row[i].key, val |-> Round1(row[i].val)]]

calculate_daily_stats(frame, day) == RoundRow(StatsDict(frame, day))

\* pd.isna
IsNa(v) == v.k \in {"nan", "none"}

\* _row_to_payload: NaN -> None
RowToPayload(row) ==
    [i \in DOMAIN row |->
        [key |-> row[i].key, val |-> IF IsNa(row[i].val) THEN None ELSE row[i].val]]

----------------------------------------------------------------------------
(* flatten_entry *)

(* A raw listing, as far as flatten_entry reads it.  t is the type of the    *)
(* entry itself; address and timeOnMarket are the values under those keys;  *)
(* municipality, city, livingArea, roadName, houseNumber and zipCode are the *)
(* values under those keys of address when address is a mapping;            *)
(* municipality_name and city_name those under "name" of municipality and   *)
(* city; current that under "current" of timeOnMarket and days that under   *)
(* "days" of current.  A key of something that is no mapping is Absent.     *)
EmptyMap == [t |-> "map", n |-> 0, s |-> <<>>]

\* x.get(key, {}) or {}
OrEmpty(v) == IF Truthy(v) THEN v ELSE EmptyMap

\* dict.get(key): None when the key is absent
GetOrNone(v) == IF v.t = "absent" THEN Null ELSE v

\* only a dict has .get: the first .get on anything else raises AttributeError
FlattenRaises(e) ==
    \/ e.t # "map"
    \/ OrEmpty(e.address).t # "map"
    \/ OrEmpty(e.timeOnMarket).t # "map"

NoRow == [c \in FlatColumns |-> Null]

\* the dict flatten_entry returns when it does not raise
FlatRow(e, update_date, day) ==
    LET address == OrEmpty(e.address)
        time_on_market == OrEmpty(e.timeOnMarket)
        \* address.get(key) and time_on_market.get(key)
        a(key) == IF address = JMap THEN e[key] ELSE Absent
        m(key) == IF time_on_market = JMap THEN e[key] ELSE Absent
    IN [kommune |-> IF a("municipality").t = "map"
                    THEN GetOrNone(e.municipality_name) ELSE Null,
        salgspris_kr |-> GetOrNone(e.priceCash),
        pris_per_m2_kr |-> GetOrNone(e.perAreaPrice),
        dage_paa_marked_nu |-> IF m("current").t = "map"
                               THEN GetOrNone(e.days) ELSE Null,
        boligareal_m2 |-> GetOrNone(a("livingArea")),
        opdateringsdato |-> IF update_date = Null THEN JDate(day) ELSE update_date,
        adresse |-> GetOrNone(a("roadName")),
        husnummer |-> GetOrNone(a("houseNumber")),
        postnummer |-> GetOrNone(a("zipCode")),
        by |-> IF a("city").t = "map" THEN GetOrNone(e.city_name) ELSE Null]

flatten_entry(e, update_date, day) ==
    IF FlattenRaises(e)
    THEN [exc |-> "AttributeError", row |-> NoRow]
    ELSE [exc |-> "none", row |-> FlatRow(e, update_date, day)]

----------------------------------------------------------------------------
(* scrape_sydjylland_boliger *)

municipalities == << "Billund", "Esbjerg", "Varde", "Vejen", "Vejle", "Kolding",
                     "Hedensted", "Horsens", "Fredericia", "Middelfart" >>

IsDigit(c) == CodePoint[c] >= 48 /\ CodePoint[c] <= 57

RECURSIVE ParseInt(_, _)
ParseInt(s, acc) ==
    IF s = <<>> THEN acc ELSE ParseInt(Tail(s), 10 * acc + CodePoint[Head(s)] - 48)

\* pd.to_numeric(errors="coerce") on one cell
ToNumeric(v) ==
    CASE v.t = "num" -> NumCell(v.n)
      [] v.t = "str" /\ v.s # <<>> /\ (\A i \in DOMAIN v.s : IsDigit(v.s[i])) ->
            NumCell(ParseInt(v.s, 0))
      [] OTHER -> NanCell

\* pd.DataFrame(flat_data) with the four numeric columns coerced
Frame(flat_rows) ==
    [i \in DOMAIN flat_rows |->
        [flat_rows[i] EXCEPT !.salgspris_kr = ToNumeric(@),
                             !.pris_per_m2_kr = ToNumeric(@),
                             !.dage_paa_marked_nu = ToNumeric(@),
                             !.boligareal_m2 = ToNumeric(@)]]

(* The answer to one GET: kind is what happened, cases the value under      *)
(* "cases" of a body that is a mapping, items the listings of a list.       *)
\* fetch_properties_from_municipality: what it returns for an answer
fetch_properties_from_municipality(answer) ==
    CASE answer.kind \in {"connection_error", "timeout"} ->
            [t |-> "list", items |-> <<>>]       \* requests.get raised
      [] answer.kind = "http_error" ->
            [t |-> "list", items |-> <<>>]       \* raise_for_status raised
      [] answer.kind = "invalid_json" ->
            [t |-> "list", items |-> <<>>]       \* response.json() raised
      [] answer.kind = "body_not_mapping" ->
            [t |-> "list", items |-> <<>>]       \* no .get: AttributeError
      [] answer.kind = "body_mapping" ->
            IF answer.cases = "absent"
            THEN [t |-> "list", items |-> <<>>]  \* the default of .get
            ELSE [t |-> answer.cases, items |-> answer.items]

----------------------------------------------------------------------------
(* upsert_daily_stats_to_supabase *)

\* not supabase_url or not supabase_key
ConfigMissing(e) == e.url \in {"unset", "empty"} \/ e.key \in {"unset", "empty"}

\* the column values of the payload written over those of the row
RECURSIVE Merge(_, _)
Merge(row, p) ==
    IF p = <<>> THEN row ELSE Merge(DictSet(row, Head(p).key, Head(p).val), Tail(p))

\* a plain insert
InsertOnly(tbl, p) == Append(tbl, p)

(* client.table("daily_stats").upsert(payload, on_conflict="Dato") on a     *)
(* table whose rows are dicts: a row with the payload's Dato takes the      *)
(* payload's columns, otherwise the payload is inserted.                    *)
Upsert(tbl, p) ==
    IF \E i \in DOMAIN tbl : DictGet(tbl[i], "Dato") = DictGet(p, "Dato")
    THEN [i \in DOMAIN tbl |->
            IF DictGet(tbl[i], "Dato") = DictGet(p, "Dato")
            THEN Merge(tbl[i], p) ELSE tbl[i]]
    ELSE Append(tbl, p)

----------------------------------------------------------------------------
(* Inputs *)

Envs == [url : {"unset", "empty", "set"}, key : {"unset", "empty", "set"}]
EnvSet == [url |-> "set", key |-> "set"]

\* a listing of the API: every block present
Listing(name, price, m2price, days) ==
    [t |-> "map", address |-> JMap, municipality |-> JMap,
     municipality_name |-> name, city |-> JMap, city_name |-> JStr(<<"B">>),
     livingArea |-> JNum(2), roadName |-> JStr(<<"A">>), houseNumber |-> JStr(<<"1">>),
     zipCode |-> JNum(1), priceCash |-> price, perAreaPrice |-> m2price,
     timeOnMarket |-> JMap, current |-> JMap, days |-> days]

\* a key is absent from whatever is no mapping
WellFormed(e) ==
    /\ e.address # JMap =>
          \A key \in {"municipality", "city", "livingArea", "roadName", "houseNumber",
                       "zipCode"} : e[key] = Absent
    /\ e.municipality # JMap => e.municipality_name = Absent
    /\ e.city # JMap => e.city_name = Absent
    /\ e.timeOnMarket # JMap => e.current = Absent
    /\ e.current # JMap => e.days = Absent

\* what may stand where a mapping is expected
Blocks == {Absent, Null, JStr(<<>>), JStr(<<"A">>), JNum(0), JNum(2), JList(0), JList(1),
           EmptyMap, JMap}

\* the listings flatten_entry is tried on
Entries ==
    {e \in [t : {"map"}, address : Blocks,
            municipality : {Absent, Null, JStr(<<"A">>), JNum(2), JList(1), JMap},
            municipality_name : {Absent, Null, JStr(<<"A", " ", "B">>)},
            city : {Absent, JStr(<<"A">>), JMap},
            city_name : {Absent, JStr(<<"B">>)},
            livingArea : {Absent}, roadName : {Absent}, houseNumber : {Absent},
            zipCode : {Absent}, priceCash : {Absent, JNum(1)}, perAreaPrice : {Absent},
            timeOnMarket : Blocks, current : {Absent, Null, JNum(2), JMap},
            days : {Absent, JNum(2)}] : WellFormed(e)}

\* the listings the API answers with in a run
ApiEntries ==
    { Listing(JStr(<<"A", " ", "B">>), JNum(1), JStr(<<"1", "2">>), Null),
      [Listing(Absent, Absent, Absent, Absent) EXCEPT
          !.address = JStr(<<"A">>), !.municipality = Absent, !.city = Absent,
          !.city_name = Absent, !.livingArea = Absent, !.roadName = Absent,
          !.houseNumber = Absent, !.zipCode = Absent] }

SeqsUpTo(S, n) == UNION {[1..k -> S] : k \in 0..n}

\* the answers to a GET that bring at most room listings
Answers(room) ==
    {[kind |-> k, cases |-> "absent", items |-> <<>>] :
        k \in {"connection_error", "timeout", "http_error", "invalid_json",
               "body_not_mapping", "body_mapping"}}
    \cup {[kind |-> "body_mapping", cases |-> c, items |-> <<>>] : c \in {"null", "num"}}
    \cup {[kind |-> "body_mapping", cases |-> "list", items |-> it] :
            it \in SeqsUpTo(ApiEntries, room)}

\* a row of a dataset: a municipality and the three numeric cells
StatRow(kommune, price, m2price, days) ==
    [kommune |-> kommune, salgspris_kr |-> price, pris_per_m2_kr |-> m2price,
     dage_paa_marked_nu |-> days, boligareal_m2 |-> NanCell, opdateringsdato |-> JDate(1),
     adresse |-> Null, husnummer |-> Null, postnummer |-> Null, by |-> Null]

Names == {<<"A", " ", "B">>, <<"A", " ", "C">>, <<"A", "_", "B">>}

StatRows ==
    {StatRow(k, c[1], c[2], c[3]) :
        k \in {Null} \cup {JStr(nm) : nm \in Names},
        c \in { <<NanCell, NanCell, NanCell>>,
                <<NumCell(1), NumCell(3), NanCell>>,
                <<NumCell(2), NanCell, NumCell(4)>>,
                <<NumCell(40000000), NumCell(4), NumCell(5)>> }}

\* the datasets calculate_daily_stats is tried on
Datasets == SeqsUpTo(StatRows, MaxLen)

\* the datasets of the runs against one table
StoreFrames ==
    { <<>>,
      << StatRow(JStr(<<"A", " ", "B">>), NumCell(1), NumCell(3), NanCell) >>,
      << StatRow(JStr(<<"A", " ", "C">>), NumCell(2), NanCell, NumCell(4)),
         StatRow(Null, NanCell, NanCell, NanCell) >> }

\* the error attribute of the result of execute(), or execute() raising
UpsertResults == {"no_error_attribute", "error_none", "error", "raised"}

----------------------------------------------------------------------------
(* The process *)

Step(op, arg) == [op |-> op, arg |-> arg]

NoProps == [t |-> "unset", items |-> <<>>]
NoRuns == [d \in 1..MaxDate |-> <<>>]

\* the locals of a run that has not started
Fresh ==
    /\ mi = 1
    /\ props = NoProps
    /\ all_properties = <<>>
    /\ flat_data = <<>>
    /\ df = <<>>
    /\ stats_df = <<>>
    /\ payload = <<>>
    /\ err = "none"
    /\ log = <<>>
    /\ res = "none"

Init ==
    /\ Fresh
    /\ pc = "fetch"
    /\ env \in Envs
    /\ table = <<>>
    /\ today = 1
    /\ ran = NoRuns
    /\ runs = 1

\* requests.get(url, params=params, timeout=30) is sent
IssueGet ==
    /\ pc = "fetch"
    /\ log' = Append(log, Step("GET", municipalities[mi]))
    /\ pc' = "wait"
    /\ UNCHANGED <<env, mi, props, all_properties, df, stats_df, payload, err, res,
                   table, today, ran, runs, flat_data>>

\* the GET ends; the rest of fetch_properties_from_municipality and of the
\* loop body: all_properties.extend(props)
GetReturns ==
    /\ pc = "wait"
    /\ \E answer \in Answers(MaxProps - Len(all_properties)) :
          LET r == fetch_properties_from_municipality(answer)
          IN /\ props' = r
             /\ log' = Append(log, Step("ANSWER", municipalities[mi]))
             /\ IF r.t = "list"
                THEN /\ all_properties' = all_properties \o r.items
                     /\ mi' = mi + 1
                     /\ pc' = IF mi = Len(municipalities) THEN "flatten" ELSE "fetch"
                     /\ err' = err
                ELSE \* extend(None), extend(5): not iterable
                     /\ err' = "TypeError"
                     /\ pc' = "fatal"
                     /\ UNCHANGED <<all_properties, mi>>
    /\ UNCHANGED <<env, df, stats_df, payload, res, table, today, ran, runs, flat_data>>

\* flat_data = [flatten_entry(p) for p in all_properties] and the DataFrame
FlattenAll ==
    /\ pc = "flatten"
    /\ LET out == [i \in DOMAIN all_properties |->
                      flatten_entry(all_properties[i], Null, today)]
       IN IF \E i \in DOMAIN out : out[i].exc # "none"
          THEN /\ err' = "AttributeError"
               /\ pc' = "fatal"
               /\ UNCHANGED <<flat_data, df, log>>
          ELSE /\ flat_data' = [i \in DOMAIN out |-> out[i].row]
               /\ df' = Frame(flat_data')
               /\ log' = Append(log, Step("FLATTEN", ""))
               /\ pc' = "stats"
               /\ err' = err
    /\ UNCHANGED <<env, mi, props, all_properties, stats_df, payload, res, table, today,
                   ran, runs>>

CalculateDailyStats ==
    /\ pc = "stats"
    /\ stats_df' = calculate_daily_stats(df, today)
    /\ log' = Append(log, Step("STATS", ""))
    /\ pc' = "upsert"
    /\ UNCHANGED <<env, mi, props, all_properties, df, payload, err, res, table, today,
                   ran, runs, flat_data>>

\* upsert_daily_stats_to_supabase up to the call of execute()
UpsertBegin ==
    /\ pc = "upsert"
    /\ IF ConfigMissing(env)
       THEN /\ err' = "RuntimeError: mangler env vars"
            /\ pc' = "fatal"
            /\ UNCHANGED <<payload, log>>
       ELSE /\ payload' = RowToPayload(stats_df)
            /\ log' = Append(log, Step("UPSERT", "daily_stats"))
            /\ pc' = "execute"
            /\ err' = err
    /\ UNCHANGED <<env, mi, props, all_properties, df, stats_df, res, table, today, ran,
                   runs, flat_data>>

\* the result is not looked at
ErrorIgnored(r) == FALSE

\* if getattr(res, "error", None)
ReportsError(r) == r = "error"

\* execute() ends; the rest of upsert_daily_stats_to_supabase
UpsertReturns ==
    /\ pc = "execute"
    /\ \E r \in UpsertResults :
          /\ res' = r
          /\ IF r = "raised"
             THEN /\ err' = "APIError"
                  /\ pc' = "fatal"
                  /\ UNCHANGED <<table, ran>>
             ELSE IF ReportsError(r)
             THEN /\ err' = "RuntimeError: supabase upsert fejl"
                  /\ pc' = "fatal"
                  /\ UNCHANGED <<table, ran>>
             ELSE /\ table' = Upsert(table, payload)
                  /\ ran' = [ran EXCEPT ![DictGet(payload, "Dato").n] = Append(@, payload)]
                  /\ pc' = "done"
                  /\ err' = err
    /\ UNCHANGED <<env, mi, props, all_properties, df, stats_df, payload, log, today,
                   runs, flat_data>>

Next == IssueGet \/ GetReturns \/ FlattenAll \/ CalculateDailyStats \/ UpsertBegin
            \/ UpsertReturns

\* one run of main()
Spec == Init /\ [][Next]_vars

----------------------------------------------------------------------------
(* flatten_entry on every listing of Entries *)

InitFlatten ==
    /\ pc = "flatten"
    /\ env = EnvSet
    /\ mi = Len(municipalities) + 1
    /\ props = NoProps
    /\ \E e \in Entries : all_properties = <<e>>
    /\ flat_data = <<>>
    /\ df = <<>>
    /\ stats_df = <<>>
    /\ payload = <<>>
    /\ err = "none"
    /\ log = <<>>
    /\ res = "none"
    /\ table = <<>>
    /\ today = 1
    /\ ran = NoRuns
    /\ runs = 1

SpecFlatten == InitFlatten /\ [][FlattenAll]_vars

----------------------------------------------------------------------------
(* calculate_daily_stats and _row_to_payload on every dataset of Datasets *)

InitStats ==
    /\ pc = "stats"
    /\ env = EnvSet
    /\ mi = Len(municipalities) + 1
    /\ props = NoProps
    /\ all_properties = <<>>
    /\ flat_data = <<>>
    /\ df \in Datasets
    /\ stats_df = <<>>
    /\ payload = <<>>
    /\ err = "none"
    /\ log = <<>>
    /\ res = "none"
    /\ table = <<>>
    /\ today = 1
    /\ ran = NoRuns
    /\ runs = 1

NextStats == CalculateDailyStats \/ UpsertBegin

SpecStats == InitStats /\ [][NextStats]_vars

----------------------------------------------------------------------------
(* Several runs against the same table, on the same or on later dates *)

InitStore ==
    /\ Fresh
    /\ pc = "idle"
    /\ env = EnvSet
    /\ table = <<>>
    /\ today = 1
    /\ ran = NoRuns
    /\ runs = 0

\* the process is started: scrape_sydjylland_boliger returns a dataset
NewRun ==
    /\ pc \in {"idle", "done", "fatal"}
    /\ runs < MaxRuns
    /\ runs' = runs + 1
    /\ env' \in {EnvSet, [url |-> "set", key |-> "unset"]}
    /\ df' \in StoreFrames
    /\ pc' = "stats"
    /\ mi' = Len(municipalities) + 1
    /\ props' = NoProps
    /\ all_properties' = <<>>
    /\ flat_data' = <<>>
    /\ stats_df' = <<>>
    /\ payload' = <<>>
    /\ err' = "none"
    /\ log' = <<>>
    /\ res' = "none"
    /\ UNCHANGED <<table, today, ran>>

\* midnight
NextDay ==
    /\ today < MaxDate
    /\ today' = today + 1
    /\ UNCHANGED <<pc, env, mi, props, all_properties, df, stats_df, payload, err, log,
                   res, table, ran, runs, flat_data>>

NextStore == NewRun \/ NextDay \/ CalculateDailyStats \/ UpsertBegin \/ UpsertReturns

SpecStore == InitStore /\ [][NextStore]_vars

----------------------------------------------------------------------------
(* Properties *)

Ops(ops) == SelectSeq(log, LAMBDA st : st.op \in ops)
Terminated == pc \in {"done", "fatal"}

\* the steps of a run that goes through
FullRun ==
    [i \in 1..(2 * Len(municipalities)) |->
        Step(IF i % 2 = 1 THEN "GET" ELSE "ANSWER", municipalities[(i + 1) \div 2])]
    \o << Step("FLATTEN", ""), Step("STATS", ""), Step("UPSERT", "daily_stats") >>

IsPrefix(a, b) == Len(a) <= Len(b) /\ a = SubSeq(b, 1, Len(a))

(* C1: when SUPABASE_URL or SUPABASE_SERVICE_ROLE_KEY is missing or empty,  *)
(* the configuration error is raised before any network activity of the    *)
(* run: no GET and no remote-store call has been issued when it is raised. *)
C1_ConfigErrorBeforeNetwork ==
    err = "RuntimeError: mangler env vars" =>
        /\ ConfigMissing(env)
        /\ Ops({"GET", "ANSWER", "UPSERT"}) = <<>>

(* C2: whatever the GET of a municipality brings, the fetch returns a       *)
(* sequence and raises nothing, and the run goes on: no fetch outcome       *)
(* makes the process fail.                                                  *)
C2_FetchNeverFails ==
    /\ props.t \in {"unset", "list"}
    /\ (pc = "fatal" => Len(Ops({"ANSWER"})) = Len(municipalities))

(* C9: one run is one strict fetch-aggregate-persist sequence: the steps    *)
(* taken are always the first steps of GET and answer for each of the ten   *)
(* municipalities in list order, then flattening, aggregation and one       *)
(* upsert; and a run that has ended has issued exactly one GET for each of  *)
(* the ten municipalities.                                                  *)
C9_OneCycleInSequence ==
    /\ IsPrefix(log, FullRun)
    /\ (Terminated =>
          Ops({"GET"}) = [i \in DOMAIN municipalities |-> Step("GET", municipalities[i])])

(* C6: when the upsert call reports an error the run ends in a fatal error, *)
(* never in success, and exactly one upsert call has been issued.           *)
C6_UpsertErrorIsFatal ==
    res = "error" =>
        /\ pc = "fatal"
        /\ err = "RuntimeError: supabase upsert fejl"
        /\ Len(Ops({"UPSERT"})) = 1

\* the upsert call has reported an error
C6_Witness == res = "error" /\ Len(Ops({"GET"})) = Len(municipalities)

----------------------------------------------------------------------------

Malformed(v) == v.t \in {"absent", "null", "str", "num", "list"}

(* C5: flatten_entry never raises for a listing whose address,              *)
(* address.municipality, address.city, timeOnMarket or timeOnMarket.current *)
(* is absent, null or no mapping, and the fields derived from that value    *)
(* are null in the row it returns.                                          *)
C5_FlattenNeverRaises ==
    LET e == all_properties[1]
    IN /\ err = "none"
       /\ pc = "stats" =>
            /\ Malformed(e.address) =>
                  \A c \in {"kommune", "boligareal_m2", "adresse", "husnummer",
                             "postnummer", "by"} : flat_data[1][c] = Null
            /\ Malformed(e.municipality) => flat_data[1].kommune = Null
            /\ Malformed(e.city) => flat_data[1].by = Null
            /\ Malformed(e.timeOnMarket) => flat_data[1].dage_paa_marked_nu = Null
            /\ Malformed(e.current) => flat_data[1].dage_paa_marked_nu = Null

----------------------------------------------------------------------------

Suffixes == {"_Antal", "_Gns_Pris", "_Gns_M2_Pris", "_Gns_Liggetid"}
MeanColumn == [x \in {"_Gns_Pris", "_Gns_M2_Pris", "_Gns_Liggetid"} |->
                CASE x = "_Gns_Pris" -> "salgspris_kr"
                  [] x = "_Gns_M2_Pris" -> "pris_per_m2_kr"
                  [] x = "_Gns_Liggetid" -> "dage_paa_marked_nu"]
GlobalMeanColumn == [x \in {"Total_Gns_Pris_kr", "Total_Gns_M2_Pris_kr",
                            "Total_Gns_Liggetid_dage"} |->
                CASE x = "Total_Gns_Pris_kr" -> "salgspris_kr"
                  [] x = "Total_Gns_M2_Pris_kr" -> "pris_per_m2_kr"
                  [] x = "Total_Gns_Liggetid_dage" -> "dage_paa_marked_nu"]
GlobalKeys == {"Dato", "Total_Antal_Boliger", "Total_Gns_Pris_kr", "Total_Median_Pris_kr",
               "Total_Gns_M2_Pris_kr", "Total_Gns_Liggetid_dage",
               "Total_Samlet_Udbud_mia_kr"}

\* the numbers of the rows of kommune in column col that are not null
NumbersOf(kommune, col) ==
    {i \in DOMAIN df : df[i].kommune = JStr(kommune) /\ df[i][col].k = "num"}
\* the numbers of the rows in column col that are not null
Numbers(col) == {i \in DOMAIN df : df[i][col].k = "num"}

RECURSIVE Total(_, _)
Total(I, col) ==
    IF I = {} THEN 0
    ELSE LET i == CHOOSE i \in I : TRUE IN df[i][col].n + Total(I \ {i}, col)

\* the municipality whose rows the fields under the prefix of kommune hold: the
\* last one, in ascending order, of those with that prefix
Last(kommune) ==
    CHOOSE x \in Kommuner(df) :
        /\ Prefix(x) = Prefix(kommune)
        /\ \A y \in Kommuner(df) : Prefix(y) = Prefix(kommune) => y = x \/ StrLess(y, x)

\* v is exactly the mean of the values I of column col
ExactMean(v, I, col) == v.k = "float" /\ v.n * Cardinality(I) = Total(I, col) * v.d

\* v is the mean of the values I of column col to one decimal place, a tie
\* going to the even tenth
RoundedMean(v, I, col) ==
    LET off == 10 * Total(I, col) - v.n * Cardinality(I)
        dist == IF off < 0 THEN -off ELSE off
    IN /\ v.k = "float" /\ v.d = 10
       /\ 2 * dist <= Cardinality(I)
       /\ 2 * dist = Cardinality(I) => v.n % 2 = 0

(* C4: in the row handed to the remote store every mean, median and         *)
(* sum-derived field whose source series is empty or all null is null,      *)
(* never zero and never NaN; an empty dataset gives count 0 and all of      *)
(* those fields null.  The fields under a prefix are read as those of the   *)
(* municipality that wrote them last.                                       *)
C4_EmptySeriesIsNull ==
    pc = "execute" =>
        /\ DictGet(payload, "Total_Antal_Boliger") = PyInt(Len(df))
        /\ Numbers("salgspris_kr") = {} =>
              /\ DictGet(payload, "Total_Gns_Pris_kr") = None
              /\ DictGet(payload, "Total_Median_Pris_kr") = None
              /\ DictGet(payload, "Total_Samlet_Udbud_mia_kr") = None
        /\ Numbers("pris_per_m2_kr") = {} =>
              DictGet(payload, "Total_Gns_M2_Pris_kr") = None
        /\ Numbers("dage_paa_marked_nu") = {} =>
              DictGet(payload, "Total_Gns_Liggetid_dage") = None
        /\ \A kommune \in Kommuner(df) : \A x \in DOMAIN MeanColumn :
              NumbersOf(Last(kommune), MeanColumn[x]) = {} =>
                  DictGet(payload, Prefix(kommune) \o x) = None

KommuneFields == SelectSeq(stats_df, LAMBDA f : f.key \notin GlobalKeys)

\* the municipality whose rows a field holds
Holder(key) ==
    CHOOSE x \in Kommuner(df) :
        /\ \E sfx \in Suffixes : key = Prefix(x) \o sfx
        /\ x = Last(x)

RECURSIVE Orderings(_)
Orderings(sq) ==
    IF sq = <<>> THEN {<<>>}
    ELSE UNION {{<<sq[i]>> \o rest : rest \in Orderings(Without(sq, i))} :
                   i \in DOMAIN sq}

(* C8: the municipality-prefixed fields come after the global fields, in    *)
(* ascending order of the name of the municipality they belong to, and a    *)
(* permutation of the rows of the dataset gives the same sequence of        *)
(* fields.                                                                  *)
C8_FieldsInNameOrder ==
    pc = "upsert" =>
        /\ \A i \in 1..7 : stats_df[i].key \in GlobalKeys
        /\ \A i, j \in DOMAIN KommuneFields :
              i < j => \/ Holder(KommuneFields[i].key) = Holder(KommuneFields[j].key)
                       \/ StrLess(Holder(KommuneFields[i].key),
                                  Holder(KommuneFields[j].key))
        /\ \A other \in Orderings(df) : calculate_daily_stats(other, today) = stats_df

(* C10: every distinct non-null municipality name has its own four fields:  *)
(* the row holds exactly 4 x (number of distinct names) municipality-       *)
(* prefixed fields, none overwritten by another municipality's.             *)
C10_FourFieldsPerMunicipality ==
    pc = "upsert" => Len(KommuneFields) = 4 * Cardinality(Kommuner(df))

----------------------------------------------------------------------------

RowsFor(tbl, day) == SelectSeq(tbl, LAMBDA r : DictGet(r, "Dato") = PyDate(day))

\* the payload of the latest successful run on a date
Latest(day) == ran[day][Len(ran[day])]

\* one row for each date of a successful run, none for the others, and that
\* row holds every field of the latest run on its date
OneRowPerDate ==
    \A day \in 1..MaxDate :
        IF ran[day] = <<>>
        THEN RowsFor(table, day) = <<>>
        ELSE /\ Len(RowsFor(table, day)) = 1
             /\ \A i \in DOMAIN Latest(day) :
                   /\ HasKey(RowsFor(table, day)[1], Latest(day)[i].key)
                   /\ DictGet(RowsFor(table, day)[1], Latest(day)[i].key)
                         = Latest(day)[i].val

\* a step changes the rows of no date but that of the run that has upserted
OtherDatesUnchanged ==
    \A day \in 1..MaxDate :
        RowsFor(table', day) # RowsFor(table, day) =>
            pc = "execute" /\ pc' = "done" /\ DictGet(payload, "Dato") = PyDate(day)

====
